---- MODULE Spec2Model ----
(***************************************************************************)
(* State-machine model of the Wavefront proxy sender (senders/proxy.go).   *)
(*                                                                         *)
(* The dispatcher (proxySender) is translated from senders/proxy.go.  The  *)
(* collaborators it calls but that live in other packages of the           *)
(* repository (internal.ConnectionHandler, internal.MetricRegistry, the    *)
(* delta-name helpers and the line encoders) are modelled from their       *)
(* contract in the specification, sections 3 and 4.                        *)
(*                                                                         *)
(* Callers are threads.  A submission call is a small process: the nil     *)
(* check and the Connected() test, then Connect(), then encode + SendData  *)
(* (and, for spans, the span-log record), so that calls of different       *)
(* threads, timer ticks and Close() interleave between the handler calls   *)
(* exactly where the Go code can be pre-empted.                            *)
(*                                                                         *)
(* Time is not modelled: a timer is armed or not, and an armed timer may   *)
(* tick at any moment, so the flush interval of the configuration          *)
(* (proxy.go:61-63, 125) has no counterpart in the state.                  *)
(***************************************************************************)
EXTENDS Integers, Sequences, FiniteSets, TLC

(***************************************************************************)
(* Bounds of the model.                                                    *)
(***************************************************************************)
MaxCalls == 2       \* API calls begun by user threads
MaxTicks == 1       \* ticks of the registry's timer
MaxFailures == 2    \* transmission failures injected by the network

(***************************************************************************)
(* proxy.go:16-22, the handler slots.                                      *)
(***************************************************************************)
metricHandler == 0
histoHandler == 1
spanHandler == 2
eventHandler == 3
handlersCount == 4

Cats == 0 .. (handlersCount - 1)

Threads == {"t1", "t2", "reg"}
UserThreads == {"t1", "t2"}

\* Port numbers a configuration may carry: disabled, or a port.
PortValues == {0, 2878}

(***************************************************************************)
(* Errors.  An error value is the list of the lines of its message; nil is *)
(* the empty list.  Flush() joins messages with "\n" (proxy.go:257,262).   *)
(***************************************************************************)
NoErr == <<>>

\* An error with one message; who: the category the message is about, or -1.
Err(msg, who) == << <<msg, who>> >>

ErrNotConfigured(c) ==
    CASE c = metricHandler -> Err("proxy metrics port not provided, cannot send metric data", c)
      [] c = histoHandler  -> Err("proxy distribution port not provided, cannot send distribution data", c)
      [] c = spanHandler   -> Err("proxy tracing port not provided, cannot send span data", c)
      [] OTHER             -> Err("proxy events port not provided, cannot send events data", c)

ErrEmptyName == Err("empty metric name", -1)

\* Errors of the collaborators.
ErrConnect(c) == Err("unable to connect", c)
ErrClosed(c) == Err("transport closed", c)
ErrNoConnection(c) == Err("no connection", c)
ErrTransmit(c) == Err("transmission failed", c)
ErrEncode(c) == Err("cannot encode the record", c)
ErrEncodeLogs == Err("cannot encode the span logs", spanHandler)

(***************************************************************************)
(* Names are strings, modelled as sequences of characters, so that the     *)
(* delta prefix can be tested and prepended.                               *)
(***************************************************************************)
deltaPrefix == "DELTA"

Names == {<<>>, <<"m">>, <<deltaPrefix, "m">>, <<"m", deltaPrefix>>}

Values == {-1, 0, 1}

\* Timestamp, source and tags of a record, passed along as one value.
Metas == {"ts1_src_tags"}

\* The span-log list of a span: empty, well-formed, or holding an entry
\* SpanLogJSON cannot encode.
LogLists == {"none", "ok", "bad"}

HasDeltaPrefix(name) == Len(name) > 0 /\ Head(name) = deltaPrefix

DeltaCounterName(name) == <<deltaPrefix>> \o name

(***************************************************************************)
(* Line encoders (senders/formatter.go): a line of the wire grammar, or an *)
(* error for a malformed record.  A record with an empty name is the       *)
(* malformed one.                                                          *)
(***************************************************************************)
Kind(c) ==
    CASE c = metricHandler -> "metric"
      [] c = histoHandler  -> "histogram"
      [] c = spanHandler   -> "span"
      [] OTHER             -> "event"

EncodeLine(c, name, value, meta) ==
    IF name = <<>>
    THEN [line |-> <<>>, err |-> ErrEncode(c)]
    ELSE [line |-> <<Kind(c), name, value, meta>>, err |-> NoErr]

SpanLogJSON(name, logs) ==
    IF logs = "bad"
    THEN [line |-> <<>>, err |-> ErrEncodeLogs]
    ELSE [line |-> <<"span_logs", name, 0, logs>>, err |-> NoErr]

(***************************************************************************)
(* internal.ConnectionHandler: one transport.  Its state is a record; each *)
(* operation returns the new record and the error.                         *)
(***************************************************************************)
NewProxyConnectionHandler ==
    [connected |-> FALSE, closed |-> FALSE, timer |-> FALSE,
     buffer |-> <<>>, wire |-> <<>>, failures |-> 0, attempts |-> 0]

HStart(h) == IF h.closed THEN h ELSE [h EXCEPT !.timer = TRUE]

HConnected(h) == h.connected

\* ok: whether the network accepts the connection.  A closed transport is
\* terminal, a connected one is left alone.
HConnect(h, c, ok) ==
    IF h.closed THEN [h |-> h, err |-> ErrClosed(c)]
    ELSE IF h.connected THEN [h |-> h, err |-> NoErr]
    ELSE IF ok
    THEN [h |-> [h EXCEPT !.connected = TRUE, !.attempts = @ + 1], err |-> NoErr]
    ELSE [h |-> [h EXCEPT !.attempts = @ + 1], err |-> ErrConnect(c)]

\* Appends the line to the pending buffer; needs a connection.
HSendData(h, c, line) ==
    IF h.connected
    THEN [h |-> [h EXCEPT !.buffer = Append(@, line)], err |-> NoErr]
    ELSE [h |-> h, err |-> ErrNoConnection(c)]

\* Flush() transmitting, when the network fails, the newest lines first.
HFlushTail(h, c, k) ==
    IF ~h.connected \/ h.buffer = <<>> THEN [h |-> h, err |-> NoErr]
    ELSE LET n == Len(h.buffer)
             sentNow == SubSeq(h.buffer, n - k + 1, n)
             rest == SubSeq(h.buffer, 1, n - k)
         IN IF k >= n
            THEN [h |-> [h EXCEPT !.buffer = <<>>, !.wire = @ \o h.buffer], err |-> NoErr]
            ELSE [h |-> [h EXCEPT !.buffer = rest, !.wire = @ \o sentNow,
                                  !.failures = @ + 1],
                  err |-> ErrTransmit(c)]

\* k: how many buffered lines the network takes before it fails; all of
\* them is a success.  The lines not taken stay buffered, in order.
HFlush(h, c, k) ==
    IF ~h.connected \/ h.buffer = <<>> THEN [h |-> h, err |-> NoErr]
    ELSE LET n == Len(h.buffer)
             sentNow == SubSeq(h.buffer, 1, k)
             rest == SubSeq(h.buffer, k + 1, n)
         IN IF k >= n
            THEN [h |-> [h EXCEPT !.buffer = <<>>, !.wire = @ \o h.buffer], err |-> NoErr]
            ELSE [h |-> [h EXCEPT !.buffer = rest, !.wire = @ \o sentNow,
                                  !.failures = @ + 1],
                  err |-> ErrTransmit(c)]

\* Best-effort flush, then the socket is released and the timer halted.
HClose(h, c, k) ==
    IF h.closed THEN h
    ELSE [HFlush(h, c, k).h EXCEPT !.connected = FALSE, !.timer = FALSE, !.closed = TRUE]

HGetFailureCount(h) == h.failures

(***************************************************************************)
(* internal.MetricRegistry: the self-monitoring loop.                      *)
(***************************************************************************)
registryPrefix == <<"~sdk.go.core.sender.proxy">>

NewMetricRegistry == [armed |-> FALSE, stopped |-> FALSE, names |-> <<>>]

RegistryAdd(r, name) == [r EXCEPT !.names = Append(@, name)]

RegistryStart(r) == IF r.stopped THEN r ELSE [r EXCEPT !.armed = TRUE]

RegistryStop(r) == [r EXCEPT !.armed = FALSE, !.stopped = TRUE]

(***************************************************************************)
(* State.                                                                  *)
(***************************************************************************)
VARIABLES
    built,      \* "none" before NewProxySender, then "ok" (a sender is returned)
                \* or "error" (nil and "at least one proxy port should be enabled")
    ports,      \* the ProxyConfiguration's four ports
    handlers,   \* sender.handlers: which slots hold a handler (non-nil)
    tr,         \* the state of each slot's transport
    registry,   \* sender.internalRegistry
    counters,   \* the sender's DeltaCounter fields: registry name or "nil"
    th,         \* each thread's current call
    calls,      \* API calls begun by user threads
    ticks,      \* ticks of the registry's timer
    closeDone,  \* a Close() call has returned
    startCalls  \* the Start() calls NewProxySender made

vars == <<built, ports, handlers, tr, registry, counters, th, calls, ticks, closeDone,
          startCalls>>


(***************************************************************************)
(* A thread's call: the API method it is in (op), its position (pc), the   *)
(* arguments it was given, the arguments SendMetric was entered with       *)
(* (mname, mvalue, mmeta), and what the call did and returned.             *)
(***************************************************************************)
IdleFrame ==
    [pc |-> "idle", op |-> "none", cat |-> metricHandler,
     name |-> <<>>, value |-> 0, meta |-> "", logs |-> "none",
     mname |-> <<>>, mvalue |-> 0, mmeta |-> "",
     i |-> 0,             \* Close(): the next slot of the loop
     err |-> NoErr,       \* the error returned
     ret |-> 0,           \* GetFailureCount(): the value returned
     tried |-> 0,         \* Connect() calls made
     base |-> 0,          \* connection attempts the transport had made when
                          \* the call found it disconnected
     handed |-> <<>>,     \* lines SendData accepted
     flushed |-> <<>>,    \* Flush(): the slots flushed, in order
     afterClose |-> FALSE \* the call began after a Close() had returned
    ]

Call(op, c, name, value, meta, logs) ==
    [IdleFrame EXCEPT !.op = op, !.cat = c, !.name = name, !.value = value,
                      !.meta = meta, !.logs = logs, !.mname = name,
                      !.mvalue = value, !.mmeta = meta, !.afterClose = closeDone]

SubmitOps == {"SendMetric", "SendDeltaCounter", "SendDistribution", "SendSpan", "SendEvent"}

CounterFields ==
    {"pointsValid", "pointsInvalid", "pointsDropped", "pointReportErrors",
     "histogramsValid", "histogramsInvalid", "histogramsDropped", "histogramReportErrors",
     "spansValid", "spansInvalid", "spansDropped", "spanReportErrors",
     "spanLogsValid", "spanLogsInvalid", "spanLogsDropped", "spanLogReportErrors"}

Init ==
    /\ built = "none"
    /\ ports = [c \in Cats |-> 0]
    /\ handlers = [c \in Cats |-> FALSE]
    /\ tr = [c \in Cats |-> NewProxyConnectionHandler]
    /\ registry = NewMetricRegistry
    /\ counters = [f \in CounterFields |-> "nil"]
    /\ th = [t \in Threads |-> IdleFrame]
    /\ calls = 0
    /\ ticks = 0
    /\ closeDone = FALSE
    /\ startCalls = 0

\* Start() opening every connection at once.
StartHandlersEager(hs, trs) ==
    [c \in Cats |-> IF hs[c] THEN HConnect(HStart(trs[c]), c, TRUE).h ELSE trs[c]]

(***************************************************************************)
(* proxySender.Start, proxy.go:129-136.                                    *)
(***************************************************************************)
StartHandlers(hs, trs) == [c \in Cats |-> IF hs[c] THEN HStart(trs[c]) ELSE trs[c]]

(***************************************************************************)
(* NewProxySender, proxy.go:55-121.                                        *)
(***************************************************************************)
\* proxy.go:93-111: the assignments, in order, as <<field, registry name>>.
CounterAssignments ==
    << <<"pointsValid", "points.valid">>,
       <<"pointsInvalid", "points.invalid">>,
       <<"pointsInvalid", "points.dropped">>,
       <<"pointsInvalid", "points.report.errors">>,
       <<"histogramsValid", "histograms.valid">>,
       <<"histogramsInvalid", "histograms.invalid">>,
       <<"histogramsDropped", "histograms.dropped">>,
       <<"histogramReportErrors", "histograms.report.errors">>,
       <<"spansValid", "spans.valid">>,
       <<"spansInvalid", "spans.invalid">>,
       <<"spansDropped", "spans.dropped">>,
       <<"spanReportErrors", "spans.report.errors">>,
       <<"spanLogsValid", "span_logs.valid">>,
       <<"spanLogsInvalid", "span_logs.invalid">>,
       <<"spanLogsDropped", "span_logs.dropped">>,
       <<"spanLogReportErrors", "span_logs.report.errors">> >>

RECURSIVE Assign(_, _, _)
Assign(fields, as, n) ==
    IF n > Len(as) THEN fields
    ELSE Assign([fields EXCEPT ![as[n][1]] = as[n][2]], as, n + 1)

RECURSIVE Register(_, _, _)
Register(r, as, n) ==
    IF n > Len(as) THEN r ELSE Register(RegistryAdd(r, as[n][2]), as, n + 1)

\* MakeHandlers with the distribution handler made from the metrics port.
MakeHandlersWrongPort(p) ==
    [c \in Cats |-> IF c = histoHandler THEN p[metricHandler] # 0 ELSE p[c] # 0]

\* proxy.go:65-79: a handler for every port that is not 0.
MakeHandlers(p) == [c \in Cats |-> p[c] # 0]

\* The loop of NewProxySender calling Start() for every handler it finds.
RECURSIVE ConstructionStartsEach(_, _)
ConstructionStartsEach(hs, c) ==
    IF c >= handlersCount THEN 0
    ELSE IF hs[c] THEN 1 + ConstructionStartsEach(hs, c + 1)
    ELSE ConstructionStartsEach(hs, c + 1)

\* proxy.go:113-120: the loop over the slots from c on.  At the first
\* handler it calls Start() and returns the sender; the number of Start()
\* calls it makes, 0 when it falls through to the error.
RECURSIVE ConstructionStarts(_, _)
ConstructionStarts(hs, c) ==
    IF c >= handlersCount THEN 0
    ELSE IF hs[c] THEN 1
    ELSE ConstructionStarts(hs, c + 1)

NewProxySender ==
    /\ built = "none"
    /\ \E p \in [Cats -> PortValues] :
        LET hs == MakeHandlers(p)
            reg == Register(RegistryAdd(NewMetricRegistry, "version"), CounterAssignments, 1)
            n == ConstructionStarts(hs, 0)
            ok == n > 0
        IN /\ ports' = p
           /\ handlers' = hs
           /\ counters' = Assign(counters, CounterAssignments, 1)
           /\ startCalls' = n
           /\ IF ok
              THEN /\ tr' = StartHandlers(hs, tr)
                   /\ registry' = RegistryStart(reg)
                   /\ built' = "ok"
              ELSE /\ tr' = tr
                   /\ registry' = reg
                   /\ built' = "error"
    /\ UNCHANGED <<th, calls, ticks, closeDone>>

(***************************************************************************)
(* A returned call's frame holds its result until the caller takes it.     *)
(* The frame is local to the caller, so the caller takes it before any     *)
(* other step is considered: no interleaving of the sender's own state is  *)
(* lost, and results are not carried along as history.                     *)
(***************************************************************************)
TakeResult(t) ==
    /\ th[t].pc = "done"
    /\ th' = [th EXCEPT ![t] = IdleFrame]
    /\ UNCHANGED <<startCalls, built, ports, handlers, tr, registry, counters, calls, ticks, closeDone>>

Settled == \A t \in Threads : th[t].pc # "done"

(***************************************************************************)
(* A user thread begins an API call on the sender it was given.            *)
(***************************************************************************)
\* User threads are interchangeable: a call is begun by the first idle one.
CanCall(t) ==
    /\ Settled
    /\ built = "ok"
    /\ t \in UserThreads
    /\ th[t].pc = "idle"
    /\ t = "t2" => th["t1"].pc # "idle"
    /\ calls < MaxCalls

Start(t) ==
    /\ CanCall(t)
    /\ calls' = calls + 1
    /\ tr' = StartHandlers(handlers, tr)
    /\ registry' = RegistryStart(registry)
    /\ th' = [th EXCEPT ![t] = [Call("Start", metricHandler, <<>>, 0, "", "none") EXCEPT !.pc = "done"]]
    /\ UNCHANGED <<startCalls, built, ports, handlers, counters, ticks, closeDone>>

(***************************************************************************)
(* How a step of a call ends: it returns (the frame keeps the result until *)
(* the thread's next call), or it moves on to the next position.           *)
(***************************************************************************)
Return(t, f) ==
    /\ th' = [th EXCEPT ![t] = [f EXCEPT !.pc = "done"]]
    /\ closeDone' = (closeDone \/ f.op = "Close")

Goto(t, f, pc) ==
    /\ th' = [th EXCEPT ![t] = [f EXCEPT !.pc = pc]]
    /\ closeDone' = closeDone

\* The network injects at most MaxFailures transmission failures.
RECURSIVE SumFailures(_, _)
SumFailures(trs, c) ==
    IF c >= handlersCount THEN 0 ELSE trs[c].failures + SumFailures(trs, c + 1)

WithinFailures(trs) == SumFailures(trs, 0) <= MaxFailures

(***************************************************************************)
(* The policy the four submission methods share.                           *)
(***************************************************************************)
\* Enter without the nil check.
EnterUnchecked(t, c, f) ==
    IF ~HConnected(tr[c])
    THEN Goto(t, [f EXCEPT !.base = tr[c].attempts], "connect")
    ELSE Goto(t, f, "send")

\* proxy.go:139-144 (172-177, 192-197, 223-228): the slot's handler, the
\* nil check and the Connected() test.
Enter(t, c, f) ==
    IF ~handlers[c]
    THEN Return(t, [f EXCEPT !.err = ErrNotConfigured(c)])
    ELSE IF ~HConnected(tr[c])
         THEN Goto(t, [f EXCEPT !.base = tr[c].attempts], "connect")
         ELSE Goto(t, f, "send")

\* The Connect() call with its error ignored.
LazyConnectSwallow(t, c) ==
    /\ Settled
    /\ th[t].pc = "connect"
    /\ th[t].cat = c
    /\ \E ok \in BOOLEAN :
        LET r == HConnect(tr[c], c, ok)
            f == [th[t] EXCEPT !.tried = @ + 1, !.base = 0]
        IN /\ tr' = [tr EXCEPT ![c] = r.h]
           /\ Goto(t, f, "send")
    /\ UNCHANGED <<startCalls, built, ports, handlers, registry, counters, calls, ticks>>

\* proxy.go:145-147 (178-180, 198-200, 229-231): handler.Connect().
LazyConnect(t, c) ==
    /\ Settled
    /\ th[t].pc = "connect"
    /\ th[t].cat = c
    /\ \E ok \in BOOLEAN :
        LET r == HConnect(tr[c], c, ok)
            f == [th[t] EXCEPT !.tried = @ + 1, !.base = 0]
        IN /\ tr' = [tr EXCEPT ![c] = r.h]
           /\ IF r.err # NoErr
              THEN Return(t, [f EXCEPT !.err = r.err])
              ELSE Goto(t, f, "send")
    /\ UNCHANGED <<startCalls, built, ports, handlers, registry, counters, calls, ticks>>

\* The line handed to SendData before the encoder's error is looked at.
EncodeAndSendAnyway(t, c) ==
    /\ Settled
    /\ th[t].pc = "send"
    /\ th[t].cat = c
    /\ LET f == th[t]
           e == EncodeLine(c, f.mname, f.mvalue, f.mmeta)
           r == HSendData(tr[c], c, e.line)
       IN /\ tr' = [tr EXCEPT ![c] = r.h]
          /\ Return(t, [f EXCEPT !.err = IF e.err # NoErr THEN e.err ELSE r.err,
                                 !.handed = IF r.err = NoErr THEN Append(@, e.line) ELSE @])
    /\ UNCHANGED <<startCalls, built, ports, handlers, registry, counters, calls, ticks>>

\* proxy.go:150-155 (183-188, 234-239): encode, then handler.SendData(line).
EncodeAndSend(t, c) ==
    /\ Settled
    /\ th[t].pc = "send"
    /\ th[t].cat = c
    /\ LET f == th[t]
           e == EncodeLine(c, f.mname, f.mvalue, f.mmeta)
           r == HSendData(tr[c], c, e.line)
       IN IF e.err # NoErr
          THEN /\ tr' = tr
               /\ Return(t, [f EXCEPT !.err = e.err])
          ELSE /\ tr' = [tr EXCEPT ![c] = r.h]
               /\ Return(t, [f EXCEPT !.err = r.err,
                                      !.handed = IF r.err = NoErr THEN Append(@, e.line) ELSE @])
    /\ UNCHANGED <<startCalls, built, ports, handlers, registry, counters, calls, ticks>>

(***************************************************************************)
(* proxySender.SendMetric, proxy.go:138-156.                               *)
(***************************************************************************)
MetricNames == {<<>>, <<"m">>}

SendMetric(t) ==
    /\ CanCall(t)
    /\ calls' = calls + 1
    /\ \E name \in MetricNames, meta \in Metas :
        Enter(t, metricHandler, Call("SendMetric", metricHandler, name, 1, meta, "none"))
    /\ UNCHANGED <<startCalls, built, ports, handlers, tr, registry, counters, ticks>>

SendMetricConnect(t) == LazyConnect(t, metricHandler)

SendMetricSend(t) == EncodeAndSend(t, metricHandler)

\* SendDeltaCounter letting the value 0 through (>= for >).
SendDeltaCounterZero(t) ==
    /\ CanCall(t)
    /\ calls' = calls + 1
    /\ \E name \in Names, value \in Values, meta \in Metas :
        LET f == Call("SendDeltaCounter", metricHandler, name, value, meta, "none")
            renamed == IF ~HasDeltaPrefix(name) THEN DeltaCounterName(name) ELSE name
        IN IF name = <<>>
           THEN Return(t, [f EXCEPT !.err = ErrEmptyName])
           ELSE IF value >= 0
                THEN Enter(t, metricHandler, [f EXCEPT !.mname = renamed])
                ELSE Return(t, f)
    /\ UNCHANGED <<startCalls, built, ports, handlers, tr, registry, counters, ticks>>

\* SendDeltaCounter prefixing every name, marked or not.
SendDeltaCounterAlwaysPrefix(t) ==
    /\ CanCall(t)
    /\ calls' = calls + 1
    /\ \E name \in Names, value \in Values, meta \in Metas :
        LET f == Call("SendDeltaCounter", metricHandler, name, value, meta, "none")
            renamed == DeltaCounterName(name)
        IN IF name = <<>>
           THEN Return(t, [f EXCEPT !.err = ErrEmptyName])
           ELSE IF value > 0
                THEN Enter(t, metricHandler, [f EXCEPT !.mname = renamed])
                ELSE Return(t, f)
    /\ UNCHANGED <<startCalls, built, ports, handlers, tr, registry, counters, ticks>>

\* SendDeltaCounter testing the value before the name.
SendDeltaCounterValueFirst(t) ==
    /\ CanCall(t)
    /\ calls' = calls + 1
    /\ \E name \in Names, value \in Values, meta \in Metas :
        LET f == Call("SendDeltaCounter", metricHandler, name, value, meta, "none")
            renamed == IF ~HasDeltaPrefix(name) THEN DeltaCounterName(name) ELSE name
        IN IF value <= 0
           THEN Return(t, f)
           ELSE IF name = <<>>
                THEN Return(t, [f EXCEPT !.err = ErrEmptyName])
                ELSE Enter(t, metricHandler, [f EXCEPT !.mname = renamed])
    /\ UNCHANGED <<startCalls, built, ports, handlers, tr, registry, counters, ticks>>

(***************************************************************************)
(* proxySender.SendDeltaCounter, proxy.go:158-169.                         *)
(***************************************************************************)
SendDeltaCounter(t) ==
    /\ CanCall(t)
    /\ calls' = calls + 1
    /\ \E name \in Names, value \in Values, meta \in Metas :
        LET f == Call("SendDeltaCounter", metricHandler, name, value, meta, "none")
            renamed == IF ~HasDeltaPrefix(name) THEN DeltaCounterName(name) ELSE name
        IN IF name = <<>>
           THEN Return(t, [f EXCEPT !.err = ErrEmptyName])
           ELSE IF value > 0
                THEN Enter(t, metricHandler, [f EXCEPT !.mname = renamed])
                ELSE Return(t, f)
    /\ UNCHANGED <<startCalls, built, ports, handlers, tr, registry, counters, ticks>>

(***************************************************************************)
(* proxySender.SendDistribution, proxy.go:171-189.                         *)
(***************************************************************************)
SendDistribution(t) ==
    /\ CanCall(t)
    /\ calls' = calls + 1
    /\ \E name \in MetricNames, meta \in Metas :
        Enter(t, histoHandler, Call("SendDistribution", histoHandler, name, 1, meta, "none"))
    /\ UNCHANGED <<startCalls, built, ports, handlers, tr, registry, counters, ticks>>

SendDistributionConnect(t) == LazyConnect(t, histoHandler)

SendDistributionSend(t) == EncodeAndSend(t, histoHandler)

(***************************************************************************)
(* proxySender.SendSpan, proxy.go:191-220.                                 *)
(***************************************************************************)
SendSpan(t) ==
    /\ CanCall(t)
    /\ calls' = calls + 1
    /\ \E name \in MetricNames, meta \in Metas, logs \in LogLists :
        Enter(t, spanHandler, Call("SendSpan", spanHandler, name, 1, meta, logs))
    /\ UNCHANGED <<startCalls, built, ports, handlers, tr, registry, counters, ticks>>

SendSpanConnect(t) == LazyConnect(t, spanHandler)

\* SendSpan going on to the span logs whether or not the span line was sent.
SendSpanLineUnchecked(t) ==
    /\ Settled
    /\ th[t].pc = "send"
    /\ th[t].cat = spanHandler
    /\ LET f == th[t]
           e == EncodeLine(spanHandler, f.mname, f.mvalue, f.mmeta)
           r == HSendData(tr[spanHandler], spanHandler, e.line)
       IN IF e.err # NoErr
          THEN /\ tr' = tr
               /\ Return(t, [f EXCEPT !.err = e.err])
          ELSE /\ tr' = [tr EXCEPT ![spanHandler] = r.h]
               /\ LET g == [f EXCEPT !.handed = IF r.err = NoErr THEN Append(@, e.line) ELSE @]
                  IN IF f.logs # "none" THEN Goto(t, g, "logs") ELSE Return(t, g)
    /\ UNCHANGED <<startCalls, built, ports, handlers, registry, counters, calls, ticks>>

\* proxy.go:203-212: the span line; the span logs follow only if it was sent.
SendSpanLine(t) ==
    /\ Settled
    /\ th[t].pc = "send"
    /\ th[t].cat = spanHandler
    /\ LET f == th[t]
           e == EncodeLine(spanHandler, f.mname, f.mvalue, f.mmeta)
           r == HSendData(tr[spanHandler], spanHandler, e.line)
       IN IF e.err # NoErr
          THEN /\ tr' = tr
               /\ Return(t, [f EXCEPT !.err = e.err])
          ELSE /\ tr' = [tr EXCEPT ![spanHandler] = r.h]
               /\ IF r.err # NoErr
                  THEN Return(t, [f EXCEPT !.err = r.err])
                  ELSE IF f.logs # "none"
                       THEN Goto(t, [f EXCEPT !.handed = Append(@, e.line)], "logs")
                       ELSE Return(t, [f EXCEPT !.handed = Append(@, e.line)])
    /\ UNCHANGED <<startCalls, built, ports, handlers, registry, counters, calls, ticks>>

\* SendSpan treating the span logs as best effort: their error is dropped.
SendSpanLogsSwallowed(t) ==
    /\ Settled
    /\ th[t].pc = "logs"
    /\ LET f == th[t]
           e == SpanLogJSON(f.mname, f.logs)
           r == HSendData(tr[spanHandler], spanHandler, e.line)
       IN IF e.err # NoErr
          THEN /\ tr' = tr
               /\ Return(t, f)
          ELSE /\ tr' = [tr EXCEPT ![spanHandler] = r.h]
               /\ Return(t, [f EXCEPT !.handed = IF r.err = NoErr THEN Append(@, e.line) ELSE @])
    /\ UNCHANGED <<startCalls, built, ports, handlers, registry, counters, calls, ticks>>

\* proxy.go:213-217: the span-log record.
SendSpanLogs(t) ==
    /\ Settled
    /\ th[t].pc = "logs"
    /\ LET f == th[t]
           e == SpanLogJSON(f.mname, f.logs)
           r == HSendData(tr[spanHandler], spanHandler, e.line)
       IN IF e.err # NoErr
          THEN /\ tr' = tr
               /\ Return(t, [f EXCEPT !.err = e.err])
          ELSE /\ tr' = [tr EXCEPT ![spanHandler] = r.h]
               /\ Return(t, [f EXCEPT !.err = r.err,
                                      !.handed = IF r.err = NoErr THEN Append(@, e.line) ELSE @])
    /\ UNCHANGED <<startCalls, built, ports, handlers, registry, counters, calls, ticks>>

\* SendEvent taking the handler of the metric slot.
SendEventWrongSlot(t) ==
    /\ CanCall(t)
    /\ calls' = calls + 1
    /\ \E name \in MetricNames, meta \in Metas :
        Enter(t, metricHandler, Call("SendEvent", eventHandler, name, 1, meta, "none"))
    /\ UNCHANGED <<startCalls, built, ports, handlers, tr, registry, counters, ticks>>

(***************************************************************************)
(* proxySender.SendEvent, proxy.go:222-240.                                *)
(***************************************************************************)
SendEvent(t) ==
    /\ CanCall(t)
    /\ calls' = calls + 1
    /\ \E name \in MetricNames, meta \in Metas :
        Enter(t, eventHandler, Call("SendEvent", eventHandler, name, 1, meta, "none"))
    /\ UNCHANGED <<startCalls, built, ports, handlers, tr, registry, counters, ticks>>

SendEventConnect(t) == LazyConnect(t, eventHandler)

SendEventSend(t) == EncodeAndSend(t, eventHandler)

(***************************************************************************)
(* proxySender.Close, proxy.go:242-249.  The loop closes the handlers in   *)
(* slot order, one handler per step; then the registry is stopped, and its *)
(* final report re-enters SendMetric on the closing thread.                *)
(***************************************************************************)
\* The loop of Close() ending one slot early.
RECURSIVE NextHandlerShort(_)
NextHandlerShort(i) ==
    IF i >= handlersCount - 1 THEN handlersCount
    ELSE IF handlers[i] THEN i ELSE NextHandlerShort(i + 1)

RECURSIVE NextHandler(_)
NextHandler(i) ==
    IF i >= handlersCount THEN handlersCount
    ELSE IF handlers[i] THEN i ELSE NextHandler(i + 1)

Close(t) ==
    /\ CanCall(t)
    /\ calls' = calls + 1
    /\ Goto(t, Call("Close", metricHandler, <<>>, 0, "", "none"), "closing")
    /\ UNCHANGED <<startCalls, built, ports, handlers, tr, registry, counters, ticks>>

\* proxy.go:243-247.
CloseHandler(t) ==
    /\ Settled
    /\ th[t].pc = "closing"
    /\ NextHandler(th[t].i) < handlersCount
    /\ LET c == NextHandler(th[t].i)
       IN /\ \E k \in 0 .. Len(tr[c].buffer) :
               /\ tr' = [tr EXCEPT ![c] = HClose(tr[c], c, k)]
               /\ WithinFailures(tr')
          /\ Goto(t, [th[t] EXCEPT !.i = c + 1], "closing")
    /\ UNCHANGED <<startCalls, built, ports, handlers, registry, counters, calls, ticks>>

\* The gauge the registry reports: the SDK version, under the prefix.
versionName == registryPrefix \o <<"version">>

\* Close() returning without stopping the registry.
CloseRegistryForgotten(t) ==
    /\ Settled
    /\ th[t].pc = "closing"
    /\ NextHandler(th[t].i) = handlersCount
    /\ Return(t, [th[t] EXCEPT !.i = handlersCount])
    /\ UNCHANGED <<startCalls, built, ports, handlers, tr, registry, counters, calls, ticks>>

\* Close() stopping the registry first: the final report goes out before
\* the loop over the handlers.
CloseRegistryFirst(t) ==
    /\ Settled
    /\ th[t].pc = "closing"
    /\ registry' = RegistryStop(registry)
    /\ Enter(t, metricHandler,
             [th[t] EXCEPT !.i = handlersCount, !.mname = versionName, !.mvalue = 1, !.mmeta = "pid"])
    /\ UNCHANGED <<startCalls, built, ports, handlers, tr, counters, calls, ticks>>

\* proxy.go:248: internalRegistry.Stop(), with its final report.
CloseRegistry(t) ==
    /\ Settled
    /\ th[t].pc = "closing"
    /\ NextHandler(th[t].i) = handlersCount
    /\ registry' = RegistryStop(registry)
    /\ Enter(t, metricHandler,
             [th[t] EXCEPT !.i = handlersCount, !.mname = versionName, !.mvalue = 1, !.mmeta = "pid"])
    /\ UNCHANGED <<startCalls, built, ports, handlers, tr, counters, calls, ticks>>

(***************************************************************************)
(* proxySender.Flush, proxy.go:251-265.                                    *)
(***************************************************************************)
\* Flush() returning at the first error.
RECURSIVE FlushFromStopping(_, _, _, _, _)
FlushFromStopping(c, trs, errStr, done, ks) ==
    IF c >= handlersCount \/ errStr # NoErr THEN [tr |-> trs, err |-> errStr, flushed |-> done]
    ELSE IF handlers[c]
         THEN LET r == HFlush(trs[c], c, ks[c])
              IN FlushFromStopping(c + 1, [trs EXCEPT ![c] = r.h],
                                   IF r.err # NoErr THEN errStr \o r.err ELSE errStr,
                                   Append(done, c), ks)
         ELSE FlushFromStopping(c + 1, trs, errStr, done, ks)

\* The loop from slot c on: the transports, the error lines collected and
\* the slots flushed so far; ks[c] is what the network takes of slot c.
RECURSIVE FlushFrom(_, _, _, _, _)
FlushFrom(c, trs, errStr, done, ks) ==
    IF c >= handlersCount THEN [tr |-> trs, err |-> errStr, flushed |-> done]
    ELSE IF handlers[c]
         THEN LET r == HFlush(trs[c], c, ks[c])
              IN FlushFrom(c + 1, [trs EXCEPT ![c] = r.h],
                           IF r.err # NoErr THEN errStr \o r.err ELSE errStr,
                           Append(done, c), ks)
         ELSE FlushFrom(c + 1, trs, errStr, done, ks)

MaxBuffered == CHOOSE n \in 0 .. 2 * MaxCalls + MaxTicks + 1 : \A c \in Cats : Len(tr[c].buffer) <= n

Flush(t) ==
    /\ CanCall(t)
    /\ calls' = calls + 1
    /\ \E ks \in [Cats -> 0 .. MaxBuffered] :
        /\ \A c \in Cats : ks[c] <= Len(tr[c].buffer)
        /\ LET r == FlushFrom(0, tr, NoErr, <<>>, ks)
           IN /\ tr' = r.tr
              /\ WithinFailures(tr')
              /\ Return(t, [Call("Flush", metricHandler, <<>>, 0, "", "none")
                                EXCEPT !.err = r.err, !.flushed = r.flushed])
    /\ UNCHANGED <<startCalls, built, ports, handlers, registry, counters, ticks>>

(***************************************************************************)
(* proxySender.GetFailureCount, proxy.go:267-275.                          *)
(***************************************************************************)
\* GetFailureCount() with = for +=.
RECURSIVE FailuresFromLast(_)
FailuresFromLast(c) ==
    IF c >= handlersCount THEN 0
    ELSE IF handlers[c] /\ (\A d \in Cats : d > c => ~handlers[d])
         THEN HGetFailureCount(tr[c])
         ELSE FailuresFromLast(c + 1)

RECURSIVE FailuresFrom(_)
FailuresFrom(c) ==
    IF c >= handlersCount THEN 0
    ELSE IF handlers[c]
         THEN HGetFailureCount(tr[c]) + FailuresFrom(c + 1)
         ELSE FailuresFrom(c + 1)

GetFailureCountValue == FailuresFrom(0)

GetFailureCount(t) ==
    /\ CanCall(t)
    /\ calls' = calls + 1
    /\ Return(t, [Call("GetFailureCount", metricHandler, <<>>, 0, "", "none")
                      EXCEPT !.ret = GetFailureCountValue])
    /\ UNCHANGED <<startCalls, built, ports, handlers, tr, registry, counters, ticks>>

(***************************************************************************)
(* Background tasks: each started transport's flush timer, and the         *)
(* registry's timer, whose report enters SendMetric on the registry's own  *)
(* thread.  The delta counters are never incremented by the sender, so a   *)
(* report is the version gauge alone: their SendDeltaCounter calls carry   *)
(* the value 0 and are discarded.                                          *)
(***************************************************************************)
TimerTick(c) ==
    /\ Settled
    /\ handlers[c]
    /\ tr[c].timer
    /\ tr[c].connected
    /\ tr[c].buffer # <<>>
    /\ \E k \in 0 .. Len(tr[c].buffer) :
        /\ tr' = [tr EXCEPT ![c] = HFlush(tr[c], c, k).h]
        /\ WithinFailures(tr')
    /\ UNCHANGED <<startCalls, built, ports, handlers, registry, counters, th, calls, ticks, closeDone>>

RegistryTick ==
    /\ Settled
    /\ registry.armed
    /\ ticks < MaxTicks
    /\ th["reg"].pc = "idle"
    /\ ticks' = ticks + 1
    /\ Enter("reg", metricHandler, Call("report", metricHandler, versionName, 1, "pid", "none"))
    /\ UNCHANGED <<startCalls, built, ports, handlers, tr, registry, counters, calls>>

Next ==
    \/ NewProxySender
    \/ \E t \in Threads : TakeResult(t)
    \/ \E t \in Threads :
        \/ Start(t)
        \/ SendMetric(t)
        \/ SendMetricConnect(t)
        \/ SendMetricSend(t)
        \/ SendDeltaCounter(t)
        \/ SendDistribution(t)
        \/ SendDistributionConnect(t)
        \/ SendDistributionSend(t)
        \/ SendSpan(t)
        \/ SendSpanConnect(t)
        \/ SendSpanLine(t)
        \/ SendSpanLogs(t)
        \/ SendEvent(t)
        \/ SendEventConnect(t)
        \/ SendEventSend(t)
        \/ Close(t)
        \/ CloseHandler(t)
        \/ CloseRegistry(t)
        \/ Flush(t)
        \/ GetFailureCount(t)
    \/ \E c \in Cats : TimerTick(c)
    \/ RegistryTick

Spec == Init /\ [][Next]_vars

(***************************************************************************)
(* The goroutine that called Close() keeps running: the steps of its call  *)
(* (the loop over the handlers, the registry's Stop() and the final        *)
(* report's Connect() and SendData()) are taken when they can be, and so  *)
(* is every caller's taking of a returned result.                          *)
(***************************************************************************)
CloseStep(t) ==
    \/ CloseHandler(t)
    \/ CloseRegistry(t)
    \/ (th[t].op = "Close" /\ LazyConnect(t, metricHandler))
    \/ (th[t].op = "Close" /\ EncodeAndSend(t, metricHandler))

FairSpec ==
    /\ Spec
    /\ WF_vars(\E t \in Threads : TakeResult(t))
    /\ \A t \in UserThreads : WF_vars(CloseStep(t))

(***************************************************************************)
(* Properties.                                                             *)
(***************************************************************************)
Frames == {th[t] : t \in Threads}

Returned(f) == f.pc = "done"

\* Thread t begins a call of op in this step and the call returns at once.
ReturnsAtOnce(t, op) == th[t].pc = "idle" /\ th'[t].pc = "done" /\ th'[t].op = op

\* Every line the transport has accepted, oldest first.
Accepted(h) == h.wire \o h.buffer

IsPrefix(s1, s2) == Len(s1) <= Len(s2) /\ SubSeq(s2, 1, Len(s1)) = s1

InSeq(x, sq) == \E n \in 1 .. Len(sq) : sq[n] = x

DirectSubmitOps == {"SendMetric", "SendDistribution", "SendSpan", "SendEvent"}

\* A call of a submission method whose slot is empty has returned, with the
\* slot's "port not provided" error, no Connect() call and no line handed over.
C1_NotConfiguredState ==
    \A f \in Frames :
        (f.op \in DirectSubmitOps /\ ~handlers[f.cat]) =>
            /\ Returned(f)
            /\ f.err = ErrNotConfigured(f.cat)
            /\ f.tried = 0
            /\ f.handed = <<>>

\* The step of such a call changes no transport.
C1_NotConfiguredStep ==
    \A t \in Threads :
        (\E op \in DirectSubmitOps : ReturnsAtOnce(t, op) /\ ~handlers[th'[t].cat]) => tr' = tr

\* C1: a submission call for a category whose port was 0 returns that
\* category's "port not provided" error at once: it makes no Connect() call,
\* hands no line to SendData, never reaches the connect, encode or send
\* position, and its step leaves every transport as it was.
C1_NotConfiguredFailsFast == []C1_NotConfiguredState /\ [][C1_NotConfiguredStep]_vars

C1_Witness ==
    \E f \in Frames :
        /\ f.op = "SendSpan"
        /\ Returned(f)
        /\ ~handlers[spanHandler]
        /\ handlers[metricHandler]
        /\ f.err = ErrNotConfigured(spanHandler)

\* C2: construction with all four ports 0 fails with the configuration
\* error and leaves no handler in any slot; with a non-zero port it succeeds
\* and the slots holding a handler are exactly those whose port is not 0.
C2_Construction ==
    /\ built = "error" =>
        /\ \A c \in Cats : ports[c] = 0
        /\ \A c \in Cats : ~handlers[c] /\ tr[c] = NewProxyConnectionHandler
    /\ built = "ok" =>
        /\ \E c \in Cats : ports[c] # 0
        /\ \A c \in Cats : handlers[c] <=> ports[c] # 0
    /\ built = "none" => \A c \in Cats : ~handlers[c]

C2_Witness ==
    /\ built = "ok"
    /\ ports[metricHandler] = 0
    /\ handlers[histoHandler]
    /\ ~handlers[metricHandler]

\* C3: a submission call begun after a Close() has returned (a delta counter
\* with a positive value) returns an error and no line of it is accepted by
\* a transport; a closed transport is never connected again.
C3_SubmitAfterCloseFails ==
    /\ \A f \in Frames :
        (f.op \in SubmitOps /\ f.afterClose /\ Returned(f)
            /\ ~(f.op = "SendDeltaCounter" /\ f.value <= 0)) =>
                /\ f.err # NoErr
                /\ f.handed = <<>>
    /\ \A f \in Frames : (f.op \in SubmitOps /\ f.afterClose) => f.handed = <<>>
    /\ \A c \in Cats : tr[c].closed => ~tr[c].connected

C3_Witness ==
    \E f \in Frames :
        /\ f.op = "SendEvent"
        /\ f.afterClose
        /\ Returned(f)
        /\ handlers[eventHandler]
        /\ f.tried = 1
        /\ f.err = ErrClosed(eventHandler)

C5_Original ==
    \A f \in Frames :
        (f.op = "SendDeltaCounter" /\ f.value <= 0) =>
            /\ Returned(f)
            /\ f.tried = 0
            /\ f.handed = <<>>
            /\ f.err = NoErr

\* A delta counter with value <= 0 has returned, without a Connect() call or
\* a line handed over, and with an error only for the empty name.
C5_NonPositiveState ==
    \A f \in Frames :
        (f.op = "SendDeltaCounter" /\ f.value <= 0) =>
            /\ Returned(f)
            /\ f.tried = 0
            /\ f.handed = <<>>
            /\ f.name # <<>> => f.err = NoErr
            /\ f.name = <<>> => f.err = ErrEmptyName

\* The step of such a call changes no transport.
C5_NonPositiveStep ==
    \A t \in Threads :
        (ReturnsAtOnce(t, "SendDeltaCounter") /\ th'[t].value <= 0) => tr' = tr

\* C5, amended: a delta counter with value <= 0 returns at once, makes no
\* connection attempt, hands over no line and leaves every transport as it
\* was; it returns no error when the name is not empty, and the "empty
\* metric name" error when it is.
C5_NonPositiveDiscarded == []C5_NonPositiveState /\ [][C5_NonPositiveStep]_vars

C5_Witness ==
    \E f \in Frames :
        /\ f.op = "SendDeltaCounter"
        /\ f.value = 0
        /\ f.name = <<"m">>
        /\ handlers[metricHandler]
        /\ Returned(f)
        /\ f.err = NoErr

\* C6: for a delta counter with a non-empty name and a positive value, the
\* name SendMetric is entered with starts with the delta marker; a name
\* that had it is passed as it is, a name that lacked it gets exactly one
\* marker in front; value and the rest of the record are passed unchanged,
\* and the line handed to the transport is the line of that name.
C6_DeltaNameMarkedOnce ==
    \A f \in Frames :
        (f.op = "SendDeltaCounter" /\ f.name # <<>> /\ f.value > 0) =>
            /\ HasDeltaPrefix(f.mname)
            /\ HasDeltaPrefix(f.name) => f.mname = f.name
            /\ ~HasDeltaPrefix(f.name) => (Head(f.mname) = deltaPrefix /\ Tail(f.mname) = f.name)
            /\ f.mvalue = f.value
            /\ f.mmeta = f.meta
            /\ f.handed # <<>> => f.handed = << <<"metric", f.mname, f.value, f.meta>> >>

C6_Witness ==
    \E f \in Frames :
        /\ f.op = "SendDeltaCounter"
        /\ f.name = <<"m", deltaPrefix>>
        /\ Returned(f)
        /\ f.err = NoErr
        /\ f.handed = << <<"metric", <<deltaPrefix, "m", deltaPrefix>>, 1, f.meta>> >>

\* A SendSpan call with span logs that returned after handing over the span
\* line alone returned the span-log error, and the span line is among the
\* lines the tracing transport holds or has transmitted.
C7_SpanState ==
    \A f \in Frames :
        (f.op = "SendSpan" /\ Returned(f) /\ f.logs # "none" /\ Len(f.handed) = 1) =>
            /\ f.err # NoErr
            /\ f.logs = "bad" => f.err = ErrEncodeLogs
            /\ f.logs = "ok" => f.err = ErrNoConnection(spanHandler)
            /\ InSeq(f.handed[1], Accepted(tr[spanHandler]))

\* The span-log step removes nothing the tracing transport had accepted.
C7_SpanStep ==
    \A t \in Threads :
        (th[t].pc = "logs" /\ th'[t].pc = "done") =>
            IsPrefix(Accepted(tr[spanHandler]), Accepted(tr'[spanHandler]))

\* C7: when SendSpan has handed over the span line and the span-log record
\* then fails (it cannot be encoded, or the transport refuses it), SendSpan
\* returns that error and the span line stays accepted by the tracing
\* transport: the failing step removes nothing the transport had accepted.
C7_SpanLineKeptOnLogFailure == []C7_SpanState /\ [][C7_SpanStep]_vars

C7_Witness ==
    \E f \in Frames :
        /\ f.op = "SendSpan"
        /\ Returned(f)
        /\ f.logs = "bad"
        /\ f.err = ErrEncodeLogs
        /\ Len(f.handed) = 1
        /\ InSeq(f.handed[1], Accepted(tr[spanHandler]))

\* The configured slots from c on, in slot order.
ConfiguredFrom(c) ==
    LET RECURSIVE Go(_)
        Go(d) == IF d >= handlersCount THEN <<>>
                 ELSE IF handlers[d] THEN <<d>> \o Go(d + 1) ELSE Go(d + 1)
    IN Go(c)

\* A Flush() step: the slots flushed, the error returned and the transports
\* after it, against the transmission failures the step counted.
C8_FlushStep ==
    \A t \in Threads :
        ReturnsAtOnce(t, "Flush") =>
            LET failed(c) == tr'[c].failures > tr[c].failures
                RECURSIVE Expected(_)
                Expected(c) == IF c >= handlersCount THEN <<>>
                               ELSE IF failed(c) THEN ErrTransmit(c) \o Expected(c + 1)
                               ELSE Expected(c + 1)
            IN /\ th'[t].flushed = ConfiguredFrom(0)
               /\ th'[t].err = Expected(0)
               /\ th'[t].err = NoErr <=> \A c \in Cats : ~failed(c)
               /\ \A c \in Cats : ~handlers[c] => tr'[c] = tr[c]
               /\ \A c \in Cats : ~failed(c) =>
                    (tr'[c] = tr[c] \/ (tr[c].connected /\ tr'[c].buffer = <<>>
                                        /\ tr'[c].wire = Accepted(tr[c])))

\* C8: Flush() flushes every configured transport once, in slot order,
\* whether or not an earlier flush failed; it returns nil iff no flush
\* failed, and otherwise one error made of the error of every failing
\* transport, in slot order.
C8_FlushCollectsAllErrors == [][C8_FlushStep]_vars

C8_Witness ==
    \E f \in Frames :
        /\ f.op = "Flush"
        /\ Returned(f)
        /\ f.err = ErrTransmit(metricHandler) \o ErrTransmit(spanHandler)
        /\ handlers[histoHandler]

\* The failure counters of the transports of the non-zero ports, added up.
SumOfFailures ==
    LET RECURSIVE Sum(_)
        Sum(S) == IF S = {} THEN 0
                  ELSE LET c == CHOOSE x \in S : TRUE
                       IN tr[c].failures + Sum(S \ {c})
    IN Sum({c \in Cats : ports[c] # 0 /\ built = "ok"})

\* GetFailureCount() is that sum, in every state and as returned.
C9_FailureState ==
    /\ GetFailureCountValue = SumOfFailures
    /\ \A f \in Frames : (f.op = "GetFailureCount" /\ Returned(f)) => f.ret = SumOfFailures

\* No step lowers GetFailureCount(), and reading it changes no transport.
C9_FailureStep ==
    /\ GetFailureCountValue' >= GetFailureCountValue
    /\ \A t \in Threads : ReturnsAtOnce(t, "GetFailureCount") => tr' = tr

\* C9: GetFailureCount() is the sum of the failure counters of the
\* configured transports, reading it changes no transport, and the value
\* never decreases.
C9_FailureCountIsMonotoneSum == []C9_FailureState /\ [][C9_FailureStep]_vars

C9_Witness ==
    \E f \in Frames :
        /\ f.op = "GetFailureCount"
        /\ Returned(f)
        /\ f.ret = 2
        /\ \E c, d \in Cats : c # d /\ tr[c].failures = 1 /\ tr[d].failures = 1

\* Construction leaves every transport disconnected and untried, Start()
\* changes no connection, and only the Connect() step of a call on the
\* category tries or opens a transport's connection.
C10_LazyStep ==
    /\ built = "none" => \A c \in Cats : ~tr'[c].connected /\ tr'[c].attempts = 0
    /\ \A t \in Threads :
        ReturnsAtOnce(t, "Start") =>
            \A c \in Cats : tr'[c].connected = tr[c].connected /\ tr'[c].attempts = tr[c].attempts
    /\ \A c \in Cats :
        (tr'[c].attempts # tr[c].attempts \/ (tr'[c].connected /\ ~tr[c].connected)) =>
            \E t \in Threads :
                /\ th[t].pc = "connect"
                /\ th[t].cat = c
                /\ th'[t].tried = th[t].tried + 1

\* C10: neither construction nor Start() connects a transport or makes a
\* connection attempt: every transport is disconnected right after either;
\* a transport's attempts and connections happen only in the Connect() step
\* of a submission call for its category.
C10_ConnectionsAreLazy == [][C10_LazyStep]_vars

C10_Witness ==
    /\ built = "ok"
    /\ \E f \in Frames : f.op = "Start" /\ Returned(f) /\ ~f.afterClose
    /\ \A c \in Cats : handlers[c] /\ tr[c].timer /\ ~tr[c].connected /\ tr[c].attempts = 0

\* The Connect() step of a call that found its transport disconnected,
\* after another caller's attempt on that transport was made in between.
C11_RacingStep ==
    \A t \in Threads :
        LET c == th[t].cat
        IN (th[t].pc = "connect" /\ th'[t].pc # "connect"
                /\ tr[c].attempts > th[t].base) =>
            /\ tr'[c].attempts = tr[c].attempts
            /\ th'[t].err = NoErr <=> tr'[c].connected

\* C11 as stated: of the callers that found a category's transport
\* disconnected at the same time, at most one makes a connection attempt; a
\* caller whose Connect() comes after another's attempt makes none of its
\* own and returns the state that attempt left.
C11_Original == [][C11_RacingStep]_vars

\* The registry name each counter field is meant to hold.
C12_Expected ==
    [f \in CounterFields |->
        CASE f = "pointsValid" -> "points.valid"
          [] f = "pointsInvalid" -> "points.invalid"
          [] f = "pointsDropped" -> "points.dropped"
          [] f = "pointReportErrors" -> "points.report.errors"
          [] f = "histogramsValid" -> "histograms.valid"
          [] f = "histogramsInvalid" -> "histograms.invalid"
          [] f = "histogramsDropped" -> "histograms.dropped"
          [] f = "histogramReportErrors" -> "histograms.report.errors"
          [] f = "spansValid" -> "spans.valid"
          [] f = "spansInvalid" -> "spans.invalid"
          [] f = "spansDropped" -> "spans.dropped"
          [] f = "spanReportErrors" -> "spans.report.errors"
          [] f = "spanLogsValid" -> "span_logs.valid"
          [] f = "spanLogsInvalid" -> "span_logs.invalid"
          [] f = "spanLogsDropped" -> "span_logs.dropped"
          [] OTHER -> "span_logs.report.errors"]

\* C12 as stated: after a successful construction every counter field of
\* every family holds a counter (none is nil), the counter registered under
\* the name of its own kind, and no two fields hold the same counter.
C12_Original ==
    built = "ok" =>
        /\ \A f \in CounterFields : counters[f] # "nil" /\ counters[f] = C12_Expected[f]
        /\ \A f, g \in CounterFields : f # g => counters[f] # counters[g]

\* A call's step that hands a line over.
HandsOver(t) ==
    /\ th[t].pc \in {"send", "logs"}
    /\ Len(th'[t].handed) = Len(th[t].handed) + 1

\* In a step, a transport's accepted lines (transmitted, then pending) stay
\* as they were or get one line at the end, the one a call handed over in
\* that step; the transmitted lines only grow, at the end.
C13_FifoStep ==
    /\ \A c \in Cats :
        /\ IsPrefix(tr[c].wire, tr'[c].wire)
        /\ IsPrefix(Accepted(tr[c]), Accepted(tr'[c]))
        /\ Len(Accepted(tr'[c])) <= Len(Accepted(tr[c])) + 1
        /\ Len(Accepted(tr'[c])) = Len(Accepted(tr[c])) + 1 =>
            \E t \in Threads : HandsOver(t) /\ th[t].cat = c
    /\ \A t \in Threads :
        HandsOver(t) =>
            LET c == th[t].cat
                line == th'[t].handed[Len(th'[t].handed)]
            IN /\ Accepted(tr'[c]) = Append(Accepted(tr[c]), line)
               /\ tr'[c].wire = tr[c].wire

C14_ConnectStep ==
    \A t \in Threads :
        LET c == th'[t].cat
            discarded == th'[t].op = "SendDeltaCounter"
                            /\ (th'[t].name = <<>> \/ th'[t].value <= 0)
        IN /\ (th[t].pc = "idle" /\ th'[t].op \in SubmitOps /\ ~discarded
                    /\ handlers[c] /\ ~tr[c].connected) =>
                /\ th'[t].pc = "connect"
                /\ tr' = tr
           /\ (th[t].pc = "connect" /\ th[t].op \in SubmitOps /\ th'[t].pc # "connect") =>
                /\ th'[t].tried = th[t].tried + 1
                /\ (~tr[c].connected /\ ~tr[c].closed) => tr'[c].attempts = tr[c].attempts + 1
                /\ \A d \in Cats \ {c} : tr'[d] = tr[d]
                /\ ~tr'[c].connected =>
                    /\ th'[t].pc = "done"
                    /\ th'[t].err = IF tr[c].closed THEN ErrClosed(c) ELSE ErrConnect(c)
                    /\ th'[t].handed = <<>>
                    /\ ~tr[c].connected
                    /\ tr'[c].buffer = tr[c].buffer
                    /\ tr'[c].wire = tr[c].wire
                    /\ tr'[c].failures = tr[c].failures

\* C14: when the connection attempt of a submission call fails, the call
\* returns exactly that connection error, the transport stays disconnected
\* and no line is encoded or handed over; the next submission call for the
\* category makes a fresh connection attempt.
C14_ConnectFailurePropagates == [][C14_ConnectStep]_vars

\* A call returned the connection error of the transport's second attempt.
C14_Witness ==
    \E f \in Frames :
        /\ f.op = "SendEvent"
        /\ Returned(f)
        /\ f.err = ErrConnect(eventHandler)
        /\ f.tried = 1
        /\ tr[eventHandler].attempts = 2
        /\ ~tr[eventHandler].connected

\* C15 as stated: a submission call that returned an encoding error, of
\* whichever record of the call, handed nothing to the transport.
C15_Original ==
    \A f \in Frames :
        (f.op \in SubmitOps /\ Returned(f) /\ f.err \in {ErrEncode(f.cat), ErrEncodeLogs}) =>
            f.handed = <<>>

\* The record of the call cannot be encoded.
Malformed(f) == EncodeLine(f.cat, f.mname, f.mvalue, f.mmeta).err # NoErr

\* A call whose record cannot be encoded hands nothing over, and returns
\* the encoder's error unless connecting failed first; a SendSpan call that
\* returned the span-log encoder's error handed over its span line alone.
C15_EncodeState ==
    \A f \in Frames :
        /\ (f.op \in SubmitOps /\ handlers[f.cat] /\ Malformed(f)
                /\ ~(f.op = "SendDeltaCounter" /\ f.pc = "done" /\ f.tried = 0
                        /\ f.err \in {NoErr, ErrEmptyName})) =>
            /\ f.handed = <<>>
            /\ f.pc \in {"connect", "send", "done"}
            /\ Returned(f) => f.err \in {ErrEncode(f.cat), ErrConnect(f.cat), ErrClosed(f.cat)}
        /\ (f.op \in SubmitOps /\ Returned(f) /\ f.err = ErrEncode(f.cat)) => f.handed = <<>>
        /\ (f.op = "SendSpan" /\ Returned(f) /\ f.err = ErrEncodeLogs) =>
            f.handed = << <<"span", f.mname, f.mvalue, f.mmeta>> >>

\* The steps of such a call: beginning it changes no transport, connecting
\* changes only whether its own transport is connected, and the encoding
\* step returns the encoder's error and changes no transport.
C15_EncodeStep ==
    \A t \in Threads :
        LET f == th[t]
            g == th'[t]
            c == g.cat
        IN /\ (f.pc = "idle" /\ g.op \in SubmitOps /\ Malformed(g)) => tr' = tr
           /\ (f.pc = "connect" /\ f.op \in SubmitOps /\ Malformed(f) /\ g.pc # "connect") =>
                tr' = [tr EXCEPT ![c] = [@ EXCEPT !.connected = tr'[c].connected,
                                                  !.attempts = tr'[c].attempts]]
           /\ (f.pc = "send" /\ f.op \in SubmitOps /\ Malformed(f) /\ g # f) =>
                /\ g.pc = "done"
                /\ g.err = ErrEncode(c)
                /\ g.handed = <<>>
                /\ tr' = tr
           /\ (f.pc = "logs" /\ SpanLogJSON(f.mname, f.logs).err # NoErr /\ g # f) =>
                /\ g.pc = "done"
                /\ g.err = ErrEncodeLogs
                /\ g.handed = f.handed
                /\ tr' = tr

\* C15, amended: when the encoding of a call's record (the metric,
\* distribution, span or event line) fails, the call returns the encoder's
\* error, hands nothing to the transport and leaves every buffer as it was;
\* its only effect is that its transport may have become connected.  When
\* SendSpan's span-log record cannot be encoded, the call returns that
\* error and hands no span-log record over, but the span line it handed
\* over before stays with the transport.
C15_EncodingErrorSendsNothing == []C15_EncodeState /\ [][C15_EncodeStep]_vars

\* A distribution that cannot be encoded, after its call connected the
\* transport.
C15_Witness ==
    \E f \in Frames :
        /\ f.op = "SendDistribution"
        /\ Returned(f)
        /\ f.err = ErrEncode(histoHandler)
        /\ f.tried = 1
        /\ tr[histoHandler].connected
        /\ tr[histoHandler].attempts = 1
        /\ Accepted(tr[histoHandler]) = <<>>

\* The calls that submit a record: the five methods and the registry's
\* report, which enters SendMetric.
SubmissionOps == SubmitOps \cup {"report"}

\* A step of a submission call for category c leaves every other transport
\* as it was, and what it does follows from the call's record, slot c and
\* the transport of slot c alone.
C16_IndependentStep ==
    \A t \in Threads :
        LET f == th[t]
            g == th'[t]
            c == g.cat
            discarded == g.op = "SendDeltaCounter" /\ (g.name = <<>> \/ g.value <= 0)
        IN (g # f /\ g.op \in SubmissionOps) =>
            /\ \A d \in Cats \ {c} : tr'[d] = tr[d]
            /\ (f.pc = "idle" /\ ~discarded) =>
                /\ tr'[c] = tr[c]
                /\ g.pc = IF ~handlers[c] THEN "done"
                          ELSE IF tr[c].connected THEN "send" ELSE "connect"
                /\ g.err = IF ~handlers[c] THEN ErrNotConfigured(c) ELSE NoErr
            /\ f.pc = "connect" =>
                \E ok \in BOOLEAN :
                    LET r == HConnect(tr[c], c, ok)
                    IN /\ tr'[c] = r.h
                       /\ g.err = r.err
                       /\ g.pc = IF r.err # NoErr THEN "done" ELSE "send"
            /\ f.pc = "send" =>
                LET e == EncodeLine(c, f.mname, f.mvalue, f.mmeta)
                    r == HSendData(tr[c], c, e.line)
                IN IF e.err # NoErr
                   THEN tr'[c] = tr[c] /\ g.err = e.err /\ g.pc = "done"
                   ELSE /\ tr'[c] = r.h
                        /\ g.err = r.err
                        /\ g.pc = IF r.err = NoErr /\ g.op = "SendSpan" /\ g.logs # "none"
                                  THEN "logs" ELSE "done"
            /\ f.pc = "logs" =>
                LET e == SpanLogJSON(f.mname, f.logs)
                    r == HSendData(tr[c], c, e.line)
                IN IF e.err # NoErr
                   THEN tr'[c] = tr[c] /\ g.err = e.err /\ g.pc = "done"
                   ELSE tr'[c] = r.h /\ g.err = r.err /\ g.pc = "done"

\* C16: categories are independent: every step of a submission call for a
\* category leaves the connection state, buffer and failure counter of
\* every other category's transport unchanged, and its outcome (the error
\* returned, the hand-over, the connection made) is determined by the
\* call's record and its own category's slot and transport, whatever the
\* other categories are: absent, disconnected, connected, failing or closed.
C16_CategoriesIndependent == [][C16_IndependentStep]_vars

\* An event accepted while the metric transport has a failed flush and a
\* pending line, and the distribution category is absent.
C16_Witness ==
    \E f \in Frames :
        /\ f.op = "SendEvent"
        /\ Returned(f)
        /\ f.err = NoErr
        /\ Len(f.handed) = 1
        /\ tr[metricHandler].failures = 1
        /\ tr[metricHandler].buffer # <<>>
        /\ ~handlers[histoHandler]

\* Every configured transport is closed.
AllClosed == \A c \in Cats : handlers[c] => tr[c].closed

\* A Close() call in its loop has closed the configured slots it has passed;
\* past the loop, and whenever the registry is stopped, every configured
\* transport is closed; the final report hands nothing over.
C17_CloseState ==
    /\ \A f \in Frames :
        f.op = "Close" =>
            /\ f.pc = "closing" => \A c \in Cats : (c < f.i /\ handlers[c]) => tr[c].closed
            /\ f.pc # "closing" => (AllClosed /\ registry.stopped /\ f.i = handlersCount)
            /\ f.pc # "send"
            /\ f.handed = <<>>
    /\ registry.stopped => AllClosed

\* The loop closes the lowest configured slot not yet passed and leaves the
\* registry alone; the step that stops the registry comes when every
\* configured transport is closed, and the report's Connect() returns.
C17_CloseStep ==
    \A t \in Threads :
        LET f == th[t]
            g == th'[t]
        IN (f.op = "Close" /\ g # f) =>
            /\ (f.pc = "closing" /\ g.pc = "closing") =>
                /\ g.i > f.i
                /\ handlers[g.i - 1] /\ tr'[g.i - 1].closed
                /\ \A c \in Cats : (f.i <= c /\ c < g.i - 1) => ~handlers[c]
                /\ \A c \in Cats \ {g.i - 1} : tr'[c] = tr[c]
                /\ registry' = registry
            /\ (f.pc = "closing" /\ g.pc # "closing") =>
                /\ AllClosed
                /\ tr' = tr
                /\ registry'.stopped /\ ~registry'.armed
            /\ f.pc = "connect" => g.pc = "done" /\ g.err = ErrClosed(metricHandler)

\* A Close() call that has begun returns.
C17_CloseReturns ==
    \A t \in UserThreads :
        (th[t].op = "Close" /\ th[t].pc # "done") ~> (th[t].op = "Close" /\ th[t].pc = "done")

\* C17: Close() closes every configured transport, in slot order, before
\* it stops the registry, so the registry's final report is attempted only
\* when every transport is closed; the report is refused or dropped without
\* a hand-over, and Close() returns.
C17_CloseOrder == []C17_CloseState /\ [][C17_CloseStep]_vars /\ C17_CloseReturns

\* Close() returned after its final report was refused by the metric
\* transport it had closed, with three more transports closed before.
C17_Witness ==
    \E f \in Frames :
        /\ f.op = "Close"
        /\ Returned(f)
        /\ f.tried = 1
        /\ f.err = ErrClosed(metricHandler)
        /\ \A c \in Cats : handlers[c] /\ tr[c].closed
        /\ registry.stopped

\* A delta counter with the empty name has returned the "empty metric
\* name" error; its name was not rewritten, it made no Connect() call and
\* handed nothing over.
C18_EmptyNameState ==
    \A f \in Frames :
        (f.op = "SendDeltaCounter" /\ f.name = <<>>) =>
            /\ Returned(f)
            /\ f.err = ErrEmptyName
            /\ f.mname = <<>>
            /\ f.tried = 0
            /\ f.handed = <<>>

\* The step of such a call changes no transport.
C18_EmptyNameStep ==
    \A t \in Threads :
        (ReturnsAtOnce(t, "SendDeltaCounter") /\ th'[t].name = <<>>) => tr' = tr

\* C18: SendDeltaCounter with an empty name returns the "empty metric name"
\* error for every value, positive, zero or negative, without a name
\* rewrite, a connection attempt or a send: the name is tested before the
\* value.
C18_EmptyNameRejected == []C18_EmptyNameState /\ [][C18_EmptyNameStep]_vars

\* The empty name rejected with a negative value, on a configured sender.
C18_Witness ==
    \E f \in Frames :
        /\ f.op = "SendDeltaCounter"
        /\ f.name = <<>>
        /\ f.value = -1
        /\ Returned(f)
        /\ f.err = ErrEmptyName
        /\ handlers[metricHandler]

\* The lines of a SendSpan call.
SpanLineOf(f) == <<"span", f.mname, f.mvalue, f.mmeta>>

SpanLogsOf(f) == <<"span_logs", f.mname, 0, f.logs>>

\* Position n of sq holds x, and a later position holds y.
Before(x, y, sq) == \E n, m \in 1 .. Len(sq) : n < m /\ sq[n] = x /\ sq[m] = y

\* What a SendSpan call has handed over is the span line, or the span line
\* and then the span-log record; it is at the span logs only after the span
\* line was handed over; a call that returned without error handed over one
\* record without span logs and two with them, the span line first in the
\* transport too.
C19_SpanState ==
    \A f \in Frames :
        f.op = "SendSpan" =>
            /\ f.handed \in {<<>>, <<SpanLineOf(f)>>, <<SpanLineOf(f), SpanLogsOf(f)>>}
            /\ f.pc = "logs" => (f.handed = <<SpanLineOf(f)>> /\ f.logs # "none")
            /\ Len(f.handed) = 2 => (f.logs # "none" /\ Returned(f) /\ f.err = NoErr)
            /\ (Returned(f) /\ f.err = NoErr) =>
                /\ f.logs = "none" => f.handed = <<SpanLineOf(f)>>
                /\ f.logs # "none" =>
                    /\ f.handed = <<SpanLineOf(f), SpanLogsOf(f)>>
                    /\ Before(SpanLineOf(f), SpanLogsOf(f), Accepted(tr[spanHandler]))

\* A span line that could not be encoded or sent ends the call; each
\* hand-over of the call adds one record to the tracing transport.
C19_SpanStep ==
    \A t \in Threads :
        LET f == th[t]
            g == th'[t]
        IN (f.op = "SendSpan" /\ g # f) =>
            /\ (f.pc = "send" /\ g.handed = <<>>) => (g.pc = "done" /\ g.err # NoErr)
            /\ f.pc \in {"send", "logs"} =>
                Len(Accepted(tr'[spanHandler])) - Len(Accepted(tr[spanHandler]))
                    = Len(g.handed) - Len(f.handed)

\* C19: a SendSpan call in which every step succeeds hands exactly one
\* record to the tracing transport when the span-log list is empty and
\* exactly two when it is not, the span line before the span-log record;
\* the span-log record is never handed over when the span line could not
\* be encoded or sent.
C19_SpanRecords == []C19_SpanState /\ [][C19_SpanStep]_vars

C19_Witness ==
    \E f \in Frames :
        /\ f.op = "SendSpan"
        /\ Returned(f)
        /\ f.err = NoErr
        /\ f.logs = "ok"
        /\ f.handed = <<SpanLineOf(f), SpanLogsOf(f)>>

\* A failed construction made no Start() call and no timer is armed after
\* it, ever; a successful one made exactly one; a slot without a handler
\* never has a timer.
C20_TimersState ==
    /\ built = "none" => (\A c \in Cats : ~tr[c].timer) /\ ~registry.armed
    /\ built = "error" =>
        /\ startCalls = 0
        /\ \A c \in Cats : ~tr[c].timer
        /\ ~registry.armed
    /\ built = "ok" => startCalls = 1
    /\ \A c \in Cats : tr[c].timer => handlers[c]

\* A successful construction returns with the timer of every configured
\* transport and the registry's timer armed.
C20_TimersStep ==
    (built = "none" /\ built' = "ok") =>
        /\ \A c \in Cats : tr'[c].timer <=> ports'[c] # 0
        /\ registry'.armed

\* C20: NewProxySender calls Start() itself, exactly once and only when it
\* succeeds: with a non-zero port it returns with every configured
\* transport's timer and the registry's timer armed and none for an
\* unconfigured category; with all ports 0 it makes no Start() call and no
\* transport timer and no registry timer is ever armed.
C20_ConstructionStartsOnce == []C20_TimersState /\ [][C20_TimersStep]_vars

\* A sender of three transports, the metric category absent: one Start().
C20_Witness ==
    /\ built = "ok"
    /\ startCalls = 1
    /\ ~handlers[metricHandler]
    /\ \A c \in Cats \ {metricHandler} : handlers[c] /\ tr[c].timer
    /\ registry.armed
    /\ calls = 0

====
